---- MODULE Spec2Model ----
(***************************************************************************)
(* Model of package invariant (andamound/invariant): the generic types     *)
(* Result[T, E] (result.go) and SafePointer[T] (safe_pointer.go), their    *)
(* constructors, their methods, and the caller code that holds instances.  *)
(*                                                                         *)
(* A Go value is modelled by its dynamic kind (reflect.Kind), whether it   *)
(* is the nil of that kind, and a payload identity.  A call is modelled    *)
(* as an action that records what the call did in the variable ret: the    *)
(* operation, its receiver and argument, whether it panicked and with      *)
(* which message, the value returned, and the callbacks it invoked.        *)
(***************************************************************************)
EXTENDS Integers, Sequences, FiniteSets, TLC

\* ------------------------------------------------------------------ bounds
\* payload identities: data of a value, description of an error, cell content
MaxData == 1
\* storage cells (addressable variables of the caller) that pointers refer to
NumCells == 2
\* SafePointer wrappers the caller holds at once
MaxWrappers == 2

VARIABLES
    targs,  \* the type arguments T and E the caller instantiates Result with
    held,   \* the Result the caller holds: <<>> or <<r>>
    heap,   \* caller-owned storage: address -> stored value
    sps,    \* the SafePointer wrappers the caller holds
    ret     \* the outcome of the last call

vars == <<targs, held, heap, sps, ret>>

\* ------------------------------------------------------------ Go values
\* kinds whose values are never nil
ValueKinds == {"int", "string", "struct"}
\* the kinds isNil lists (reflect.Interface is never the kind of ValueOf(v))
NilCheckedKinds == {"ptr", "interface", "slice", "map", "chan", "func"}
\* kinds with a nil value that a Go type may have
NilableKinds == {"ptr", "slice", "map", "chan", "func"}
\* the kinds reflect.Value.IsNil accepts; it panics on every other kind
IsNilKinds == {"chan", "func", "interface", "map", "ptr", "slice", "unsafe.Pointer"}

\* the nil interface value: no dynamic type (reflect.ValueOf gives kind Invalid)
NilInterface == [kind |-> "invalid", isNil |-> TRUE, data |-> 0]

\* the values of one dynamic kind
KindValues(k) ==
    IF k \in ValueKinds
    THEN {[kind |-> k, isNil |-> FALSE, data |-> d] : d \in 0..MaxData}
    ELSE {[kind |-> k, isNil |-> TRUE, data |-> 0]}
         \cup {[kind |-> k, isNil |-> FALSE, data |-> d] : d \in 1..MaxData}

\* type arguments for T (T any): a concrete kind, or an interface type
TTypes == ValueKinds \cup NilableKinds \cup {"unsafe.Pointer", "interface"}
\* type arguments for E (E error): no method can be declared on unsafe.Pointer
ETypes == ValueKinds \cup NilableKinds \cup {"interface"}

\* the values of static type T
ValuesOf(T) ==
    IF T = "interface"
    THEN {NilInterface} \cup UNION {KindValues(k) : k \in TTypes \ {"interface"}}
    ELSE KindValues(T)

\* the values of static type E
ErrorsOf(E) ==
    IF E = "interface"
    THEN {NilInterface} \cup UNION {KindValues(k) : k \in ETypes \ {"interface"}}
    ELSE KindValues(E)

\* var x T: the zero value of a type
Zero(T) ==
    IF T = "interface" THEN NilInterface
    ELSE IF T \in ValueKinds THEN [kind |-> T, isNil |-> FALSE, data |-> 0]
    ELSE [kind |-> T, isNil |-> TRUE, data |-> 0]

\* ------------------------------------------------------- call outcomes
NoPayload == <<>>
NoValue == <<>>
NoCalls == <<>>

Message(text) == [text |-> text, payload |-> NoPayload]

Return(v) == [panicked |-> FALSE, msg |-> Message(""), value |-> v, calls |-> NoCalls]

Panic(m) == [panicked |-> TRUE, msg |-> m, value |-> NoValue, calls |-> NoCalls]

\* dereference of a nil pointer
NilDereference ==
    Panic(Message("runtime error: invalid memory address or nil pointer dereference"))

\* ------------------------------------------------------------ result.go
\* reflect.ValueOf(err).IsNil()
reflectIsNil(v) ==
    IF v.kind \in IsNilKinds
    THEN Return(v.isNil)
    ELSE Panic(Message("reflect: call of reflect.Value.IsNil on non-nilable Value"))

\* isNil written with reflect's IsZero in place of IsNil
MutIsNilZero(v) == v = NilInterface \/ v.data = 0

isNil(v) ==
    IF v = NilInterface THEN TRUE
    ELSE v.kind \in NilCheckedKinds /\ v.isNil

\* isNilError with the comparison to nil alone
MutIsNilErrorNaive(err) == Return(err = NilInterface)

isNilError(err) ==
    IF err = NilInterface THEN Return(TRUE) ELSE reflectIsNil(err)

\* Ok without its nil check
MutOkUnchecked(T, E, value) ==
    Return([ok |-> <<value>>, err |-> Zero(E), isOk |-> TRUE])

Ok(T, E, value) ==
    IF isNil(value)
    THEN Panic(Message("invariant.Ok: nil value provided"))
    ELSE Return([ok |-> <<value>>, err |-> Zero(E), isOk |-> TRUE])

Err(T, E, err) ==
    LET n == isNilError(err) IN
    IF n.panicked THEN n
    ELSE IF n.value
    THEN Panic(Message("invariant.Err: nil error provided"))
    ELSE Return([ok |-> <<>>, err |-> err, isOk |-> FALSE])

IsOk(r) == Return(r.isOk)

IsErr(r) == Return(~r.isOk)

\* fmt.Sprintf("%v", err): "<nil>" for a nil interface and for a nil pointer
\* (whose Error method cannot read its receiver), else what Error() returns
Sprint(err) ==
    IF err = NilInterface \/ (err.kind = "ptr" /\ err.isNil)
    THEN <<"<nil>">>
    ELSE <<"Error()", err.kind, err.data>>

\* Unwrap whose message leaves the error out
MutUnwrapNoPayload(r) ==
    IF ~r.isOk
    THEN Panic(Message("invariant.Result.Unwrap: called on Err value: "))
    ELSE IF r.ok = <<>> THEN NilDereference
    ELSE Return(r.ok[1])

Unwrap(r) ==
    IF ~r.isOk
    THEN Panic([text |-> "invariant.Result.Unwrap: called on Err value: ",
                payload |-> Sprint(r.err)])
    ELSE IF r.ok = <<>> THEN NilDereference
    ELSE Return(r.ok[1])

UnwrapOr(r, defaultValue) ==
    IF ~r.isOk THEN Return(defaultValue)
    ELSE IF r.ok = <<>> THEN NilDereference
    ELSE Return(r.ok[1])

UnwrapErr(r) ==
    IF r.isOk
    THEN Panic(Message("invariant.Result.UnwrapErr: called on Ok value"))
    ELSE Return(r.err)

\* a caller-supplied function: the identity, or a constant function
Apply(f, v) == IF f.name = "id" THEN v ELSE f.out

Invoked(fn, arg) == [fn |-> fn, arg |-> arg]

\* Map that builds its Result without going through Ok
MutMapUnchecked(T, E, r, f) ==
    IF r.isOk
    THEN IF r.ok = <<>> THEN NilDereference
         ELSE [Return([ok |-> <<Apply(f, r.ok[1])>>, err |-> Zero(E), isOk |-> TRUE])
                 EXCEPT !.calls = <<Invoked("f", r.ok[1])>>]
    ELSE Return(r)

Map(T, E, r, f) ==
    IF r.isOk
    THEN IF r.ok = <<>> THEN NilDereference
         ELSE LET newValue == Apply(f, r.ok[1]) IN
              [Ok(T, E, newValue) EXCEPT !.calls = <<Invoked("f", r.ok[1])>>]
    ELSE Return(r)

MapErr(T, E, r, f) ==
    IF ~r.isOk
    THEN [Err(T, E, Apply(f, r.err)) EXCEPT !.calls = <<Invoked("f", r.err)>>]
    ELSE Return(r)

\* Match without its else: errFn runs after okFn too
MutMatchFallThrough(r) ==
    IF r.isOk
    THEN IF r.ok = <<>> THEN NilDereference
         ELSE [Return(NoValue) EXCEPT
                 !.calls = <<Invoked("okFn", r.ok[1]), Invoked("errFn", r.err)>>]
    ELSE [Return(NoValue) EXCEPT !.calls = <<Invoked("errFn", r.err)>>]

Match(r) ==
    IF r.isOk
    THEN IF r.ok = <<>> THEN NilDereference
         ELSE [Return(NoValue) EXCEPT !.calls = <<Invoked("okFn", r.ok[1])>>]
    ELSE [Return(NoValue) EXCEPT !.calls = <<Invoked("errFn", r.err)>>]

\* var r Result[T, E]: a variable declared without a constructor call
ZeroResult(E) == [ok |-> <<>>, err |-> Zero(E), isOk |-> FALSE]

\* ------------------------------------------------------ safe_pointer.go
\* pointers are addresses of cells; NilPtr is the nil pointer
NilPtr == 0
Addrs == 1..NumCells
Ptrs == {NilPtr} \cup Addrs
CellValues == 0..MaxData

NewSafePointer(ptr) ==
    IF ptr = NilPtr
    THEN Panic(Message("invariant.NewSafePointer: nil pointer provided"))
    ELSE Return([ptr |-> ptr])

SP(ptr) == NewSafePointer(ptr)

\* Get that returns a zero T in place of *sp.ptr
MutGetZero(sp, mem) ==
    IF sp.ptr = NilPtr THEN NilDereference ELSE Return(0)

Get(sp, mem) ==
    IF sp.ptr = NilPtr THEN NilDereference ELSE Return(mem[sp.ptr])

Some(sp) == Return(sp.ptr)

\* var sp SafePointer[T]: a variable declared without a constructor call
ZeroSafePointer == [ptr |-> NilPtr]

\* ------------------------------------------------------------- callers
NoRecv == <<>>
NoArg == <<>>

\* the record of a call: what was called on what, and its outcome
Call(op, recv, arg, o) ==
    [op |-> op, recv |-> recv, arg |-> arg, panicked |-> o.panicked,
     msg |-> o.msg, value |-> o.value, calls |-> o.calls]

\* the functions a caller may pass to Map on a Result[T, E]
FuncsOf(T) == {[name |-> "id", out |-> Zero(T)]}
              \cup {[name |-> "const", out |-> v] : v \in ValuesOf(T)}

\* the functions a caller may pass to MapErr on a Result[T, E]
ErrFuncsOf(E) == {[name |-> "id", out |-> Zero(E)]}
                 \cup {[name |-> "const", out |-> e] : e \in ErrorsOf(E)}

\* the caller keeps the returned Result, unless the call panicked
Keep(o) == IF o.panicked THEN held ELSE <<o.value>>

Init ==
    /\ targs \in [T : TTypes, E : ETypes]
    /\ held = <<>>
    /\ heap \in [Addrs -> {0}]
    /\ sps = <<>>
    /\ ret = Call("init", NoRecv, NoArg, Return(NoValue))

\* what no Result call touches
ResultFrame == UNCHANGED <<targs, heap, sps>>

\* what no SafePointer call touches
PointerFrame == UNCHANGED <<targs, held>>

CallOk ==
    \E value \in ValuesOf(targs.T) :
        LET o == Ok(targs.T, targs.E, value) IN
        /\ ret' = Call("Ok", NoRecv, value, o)
        /\ held' = Keep(o)
        /\ ResultFrame

CallErr ==
    \E err \in ErrorsOf(targs.E) :
        LET o == Err(targs.T, targs.E, err) IN
        /\ ret' = Call("Err", NoRecv, err, o)
        /\ held' = Keep(o)
        /\ ResultFrame

CallIsOk ==
    /\ held # <<>>
    /\ ret' = Call("IsOk", held[1], NoArg, IsOk(held[1]))
    /\ UNCHANGED held
    /\ ResultFrame

CallIsErr ==
    /\ held # <<>>
    /\ ret' = Call("IsErr", held[1], NoArg, IsErr(held[1]))
    /\ UNCHANGED held
    /\ ResultFrame

CallUnwrap ==
    /\ held # <<>>
    /\ ret' = Call("Unwrap", held[1], NoArg, Unwrap(held[1]))
    /\ UNCHANGED held
    /\ ResultFrame

CallUnwrapOr ==
    /\ held # <<>>
    /\ \E d \in ValuesOf(targs.T) :
        ret' = Call("UnwrapOr", held[1], d, UnwrapOr(held[1], d))
    /\ UNCHANGED held
    /\ ResultFrame

CallUnwrapErr ==
    /\ held # <<>>
    /\ ret' = Call("UnwrapErr", held[1], NoArg, UnwrapErr(held[1]))
    /\ UNCHANGED held
    /\ ResultFrame

CallMap ==
    /\ held # <<>>
    /\ \E f \in FuncsOf(targs.T) :
        LET o == Map(targs.T, targs.E, held[1], f) IN
        /\ ret' = Call("Map", held[1], f, o)
        /\ held' = Keep(o)
    /\ ResultFrame

CallMapErr ==
    /\ held # <<>>
    /\ \E f \in ErrFuncsOf(targs.E) :
        LET o == MapErr(targs.T, targs.E, held[1], f) IN
        /\ ret' = Call("MapErr", held[1], f, o)
        /\ held' = Keep(o)
    /\ ResultFrame

CallMatch ==
    /\ held # <<>>
    /\ ret' = Call("Match", held[1], NoArg, Match(held[1]))
    /\ UNCHANGED held
    /\ ResultFrame

\* var r Result[T, E]
DeclareResult ==
    /\ held' = <<ZeroResult(targs.E)>>
    /\ ret' = Call("var Result", NoRecv, NoArg, Return(ZeroResult(targs.E)))
    /\ ResultFrame

\* the slots a new wrapper may be stored in: a fresh one, or one held already
Slots == 1..(IF Len(sps) < MaxWrappers THEN Len(sps) + 1 ELSE MaxWrappers)

Store(i, o) ==
    IF o.panicked THEN sps
    ELSE IF i = Len(sps) + 1 THEN Append(sps, o.value)
    ELSE [sps EXCEPT ![i] = o.value]

CallNewSafePointer ==
    \E ptr \in Ptrs, i \in Slots :
        LET o == NewSafePointer(ptr) IN
        /\ ret' = Call("NewSafePointer", NoRecv, ptr, o)
        /\ sps' = Store(i, o)
        /\ UNCHANGED heap
        /\ PointerFrame

CallSP ==
    \E ptr \in Ptrs, i \in Slots :
        LET o == SP(ptr) IN
        /\ ret' = Call("SP", NoRecv, ptr, o)
        /\ sps' = Store(i, o)
        /\ UNCHANGED heap
        /\ PointerFrame

\* sp2 := sp
CopySafePointer ==
    \E j \in 1..Len(sps), i \in Slots :
        /\ ret' = Call("copy", sps[j], NoArg, Return(sps[j]))
        /\ sps' = Store(i, Return(sps[j]))
        /\ UNCHANGED heap
        /\ PointerFrame

CallGet ==
    \E j \in 1..Len(sps) :
        /\ ret' = Call("Get", sps[j], NoArg, Get(sps[j], heap))
        /\ UNCHANGED <<heap, sps>>
        /\ PointerFrame

CallSome ==
    \E j \in 1..Len(sps) :
        /\ ret' = Call("Some", sps[j], NoArg, Some(sps[j]))
        /\ UNCHANGED <<heap, sps>>
        /\ PointerFrame

\* *p = v: the caller writes to the storage p points to
Assign(p, v, mem) ==
    IF p = NilPtr THEN [NilDereference EXCEPT !.value = mem]
    ELSE Return([mem EXCEPT ![p] = v])

\* x = v, on the caller's own variable
WriteDirect ==
    \E p \in Addrs, v \in CellValues :
        LET o == Assign(p, v, heap) IN
        /\ ret' = Call("write", NoRecv, [ptr |-> p, v |-> v], [o EXCEPT !.value = NoValue])
        /\ heap' = o.value
        /\ UNCHANGED sps
        /\ PointerFrame

\* *sp.Some() = v
WriteThroughSome ==
    \E j \in 1..Len(sps), v \in CellValues :
        LET o == Assign(Some(sps[j]).value, v, heap) IN
        /\ ret' = Call("write Some", sps[j], v, [o EXCEPT !.value = NoValue])
        /\ heap' = o.value
        /\ UNCHANGED sps
        /\ PointerFrame

\* var sp SafePointer[T]
DeclareSafePointer ==
    \E i \in Slots :
        /\ ret' = Call("var SafePointer", NoRecv, NoArg, Return(ZeroSafePointer))
        /\ sps' = Store(i, Return(ZeroSafePointer))
        /\ UNCHANGED heap
        /\ PointerFrame

\* ------------------------------------------------------------- claims
\* absent value: the nil interface, or the nil of pointer, interface, slice,
\* map, channel or function kind
Absent(v) == v.isNil /\ v.kind \in {"invalid", "ptr", "slice", "map", "chan", "func"}

\* absent error: the nil error interface, or a typed nil stored in it
AbsentError(e) == e.isNil

\* the shape every Result built by Ok, Err, Map or MapErr has to have
WellFormed(r) ==
    /\ r.isOk => r.ok # <<>> /\ ~Absent(r.ok[1]) /\ r.err = Zero(targs.E)
    /\ ~r.isOk => r.ok = <<>> /\ ~AbsentError(r.err)
    /\ IsOk(r).value # IsErr(r).value

\* C1: every Result produced by a call of Ok, Err, Map or MapErr that did not
\* panic, and the Result the caller holds, has exactly one payload chosen by
\* the discriminant: Ok has a non-absent value and the zero error, Err has a
\* nil success slot and a non-absent error; IsOk and IsErr always differ.
C1_OnePayload ==
    /\ held # <<>> => WellFormed(held[1])
    /\ ret.op \in {"Ok", "Err", "Map", "MapErr"} /\ ~ret.panicked => WellFormed(ret.value)

C1_Witness ==
    /\ ret.op = "MapErr" /\ ~ret.panicked /\ ~ret.recv.isOk
    /\ ret.value # ret.recv /\ held = <<ret.value>>

\* C2: Ok(v) of a non-absent v does not panic and returns r with IsOk true,
\* IsErr false, Unwrap() = v and UnwrapOr(d) = v for every d.
C2_OkOfValue ==
    ret.op = "Ok" /\ ~Absent(ret.arg) =>
        /\ ~ret.panicked
        /\ IsOk(ret.value) = Return(TRUE)
        /\ IsErr(ret.value) = Return(FALSE)
        /\ Unwrap(ret.value) = Return(ret.arg)
        /\ \A d \in ValuesOf(targs.T) : UnwrapOr(ret.value, d) = Return(ret.arg)

C2_Witness ==
    /\ ret.op = "Ok" /\ ~ret.panicked /\ targs.T = "int" /\ ret.arg.data = 0
    /\ held = <<ret.value>>

\* C3: Err(e) of a non-absent e of any error type, value-like kinds included,
\* does not panic and returns r with IsErr true, IsOk false, UnwrapErr() = e
\* and UnwrapOr(d) = d for every d.
C3_ErrOfError ==
    ret.op = "Err" /\ ~AbsentError(ret.arg) =>
        /\ ~ret.panicked
        /\ IsErr(ret.value) = Return(TRUE)
        /\ IsOk(ret.value) = Return(FALSE)
        /\ UnwrapErr(ret.value) = Return(ret.arg)
        /\ \A d \in ValuesOf(targs.T) : UnwrapOr(ret.value, d) = Return(d)

\* C4: every constructor panics on an absent input and returns no instance:
\* NewSafePointer(nil), SP(nil), Ok of an absent value, Err of a nil error
\* interface or of a typed nil.
C4_AbsentInputPanics ==
    /\ ret.op \in {"NewSafePointer", "SP"} /\ ret.arg = NilPtr =>
            ret.panicked /\ ret.value = NoValue
    /\ ret.op = "Ok" /\ Absent(ret.arg) => ret.panicked /\ ret.value = NoValue
    /\ ret.op = "Err" /\ AbsentError(ret.arg) => ret.panicked /\ ret.value = NoValue

C4_Witness ==
    /\ ret.op = "Err" /\ ret.arg.kind = "ptr" /\ ret.arg.isNil /\ ret.panicked
    /\ Len(sps) = 1

\* C5: Map(f) on Ok(v) calls f on v; it returns Ok(f(v)) when f(v) is not
\* absent and panics with Ok's message when it is; Map(f) on an Err returns
\* the receiver and does not call f.
C5_Map ==
    ret.op = "Map" =>
        IF ret.recv.isOk
        THEN LET fv == Apply(ret.arg, ret.recv.ok[1]) IN
             /\ ret.calls = <<Invoked("f", ret.recv.ok[1])>>
             /\ Absent(fv) => /\ ret.panicked
                              /\ ret.msg = Message("invariant.Ok: nil value provided")
             /\ ~Absent(fv) => /\ ~ret.panicked
                               /\ IsOk(ret.value) = Return(TRUE)
                               /\ Unwrap(ret.value) = Return(fv)
        ELSE /\ ~ret.panicked
             /\ ret.value = ret.recv
             /\ ret.calls = NoCalls

C5_Witness ==
    /\ ret.op = "Map" /\ ret.recv.isOk /\ ~ret.panicked
    /\ ret.value # ret.recv /\ held = <<ret.value>>

\* C6: MapErr(g) on Err(e) calls g on e; it returns Err(g(e)) when g(e) is
\* not absent and panics when it is; MapErr(g) on an Ok returns the receiver
\* and does not call g.
C6_MapErr ==
    ret.op = "MapErr" =>
        IF ~ret.recv.isOk
        THEN LET ge == Apply(ret.arg, ret.recv.err) IN
             /\ ret.calls = <<Invoked("f", ret.recv.err)>>
             /\ AbsentError(ge) => ret.panicked
             /\ ~AbsentError(ge) => /\ ~ret.panicked
                                    /\ IsErr(ret.value) = Return(TRUE)
                                    /\ UnwrapErr(ret.value) = Return(ge)
        ELSE /\ ~ret.panicked
             /\ ret.value = ret.recv
             /\ ret.calls = NoCalls

\* C7: Unwrap on an Err panics with a message that holds the formatted error
\* and returns nothing; UnwrapErr on an Ok panics and returns nothing; Unwrap
\* on an Ok and UnwrapErr on an Err do not panic.
C7_UnwrapPanics ==
    /\ ret.op = "Unwrap" =>
        IF ret.recv.isOk THEN ~ret.panicked
        ELSE /\ ret.panicked
             /\ ret.value = NoValue
             /\ ret.msg.payload = Sprint(ret.recv.err)
    /\ ret.op = "UnwrapErr" =>
        IF ret.recv.isOk THEN ret.panicked /\ ret.value = NoValue
        ELSE ~ret.panicked

C7_Witness ==
    /\ ret.op = "Unwrap" /\ ~ret.recv.isOk /\ ret.panicked
    /\ ret.msg.payload = <<"Error()", "ptr", 1>>

\* C8: Match calls exactly one callback, once: okFn with the value on an Ok,
\* errFn with the error on an Err; the receiver is as it was.
C8_MatchOneCallback ==
    ret.op = "Match" =>
        /\ ~ret.panicked
        /\ Len(ret.calls) = 1
        /\ ret.recv.isOk => ret.calls[1] = Invoked("okFn", ret.recv.ok[1])
        /\ ~ret.recv.isOk => ret.calls[1] = Invoked("errFn", ret.recv.err)
        /\ held = <<ret.recv>>

C8_Witness ==
    /\ ret.op = "Match" /\ ~ret.recv.isOk
    /\ ret.calls = <<Invoked("errFn", ret.recv.err)>>

\* the wrappers held that point to the storage at p
WrappersOf(p) == {j \in 1..Len(sps) : sps[j].ptr = p}

\* C9: NewSafePointer(p) and SP(p) of a non-nil p succeed and Some() of the
\* wrapper is p; Get() returns what the storage holds at the time of the
\* call; after a write to the storage, direct or through Some(), every
\* wrapper of that storage reads the written value.
C9_SeesStorage ==
    /\ ret.op \in {"NewSafePointer", "SP"} /\ ret.arg # NilPtr =>
            ~ret.panicked /\ Some(ret.value) = Return(ret.arg)
    /\ ret.op = "Get" => ~ret.panicked /\ ret.value = heap[ret.recv.ptr]
    /\ ret.op = "write Some" =>
            /\ ~ret.panicked
            /\ \A j \in WrappersOf(ret.recv.ptr) : Get(sps[j], heap) = Return(ret.arg)
    /\ ret.op = "write" =>
            \A j \in WrappersOf(ret.arg.ptr) : Get(sps[j], heap) = Return(ret.arg.v)

C9_Witness ==
    /\ ret.op = "write Some" /\ ret.arg = 1
    /\ Len(sps) = 2 /\ sps[1].ptr = sps[2].ptr
    /\ Get(sps[1], heap) = Return(1) /\ Get(sps[2], heap) = Return(1)

\* C10: every SafePointer and every Result a caller can hold has passed its
\* constructor's check: Some() is never nil, Get() never dereferences nil,
\* and UnwrapErr() of a Result with IsErr() true is never an absent error.
C10_NoBypass ==
    /\ \A j \in 1..Len(sps) :
            Some(sps[j]).value # NilPtr /\ ~Get(sps[j], heap).panicked
    /\ held # <<>> /\ IsErr(held[1]).value => ~AbsentError(UnwrapErr(held[1]).value)

\* ------------------------------------------------------ specifications
\* callers of Result that obtain every instance from Ok, Err, Map or MapErr
NextResult ==
    \/ CallOk
    \/ CallErr
    \/ CallIsOk
    \/ CallIsErr
    \/ CallUnwrap
    \/ CallUnwrapOr
    \/ CallUnwrapErr
    \/ CallMap
    \/ CallMapErr
    \/ CallMatch

SpecResult == Init /\ [][NextResult]_vars

\* callers of SafePointer that obtain every instance from NewSafePointer or SP;
\* they hold no Result, so one instantiation of it stands for all
InitPointer == Init /\ targs = [T |-> "int", E |-> "interface"]

NextPointer ==
    \/ CallNewSafePointer
    \/ CallSP
    \/ CopySafePointer
    \/ CallGet
    \/ CallSome
    \/ WriteDirect
    \/ WriteThroughSome

SpecPointer == InitPointer /\ [][NextPointer]_vars

\* callers of the constructors of both types
NextConstruct ==
    \/ CallOk
    \/ CallErr
    \/ CallNewSafePointer
    \/ CallSP

SpecConstruct == Init /\ [][NextConstruct]_vars

\* callers that hold instances however Go lets them: from a constructor, from
\* Map or MapErr, by copying, or by declaring a variable of the type
NextHold ==
    \/ CallOk
    \/ CallErr
    \/ CallMap
    \/ CallMapErr
    \/ DeclareResult
    \/ CallIsErr
    \/ CallUnwrapErr
    \/ CallNewSafePointer
    \/ CallSP
    \/ CopySafePointer
    \/ DeclareSafePointer
    \/ CallSome
    \/ CallGet

SpecHold == Init /\ [][NextHold]_vars

====
